---------------------------- MODULE Spec2Model ----------------------------
(***************************************************************************)
(* A model of the weekly price-index dashboard (src/app.py) and of its     *)
(* data collector (src/data_collector.py): the week codec, the ingestion   *)
(* of API rows into the observation table, the normalisation done by       *)
(* create_chart and the change-rate matrix built by _create_single_heatmap.*)
(*                                                                         *)
(* Numbers.  A pandas float is modelled as an exact fraction <<n, d>> in   *)
(* lowest terms with d > 0; the three special floats are <<1, 0>> (+inf),  *)
(* <<-1, 0>> (-inf) and <<0, 0>> (NaN).  Rounding of binary floating point *)
(* is not modelled.                                                        *)
(* Dates.  A datetime is its proleptic Gregorian ordinal, as               *)
(* datetime.toordinal() gives it (0001-01-01 is day 1).                    *)
(***************************************************************************)
EXTENDS Integers, Sequences, FiniteSets, TLC

VARIABLES
    date_obj,      \* date_to_week_format: the argument, <<year, month, day>>
    week_str,      \* date_to_week_format: the returned string, a sequence of digits
    response,      \* get_data: the HTTP outcome of the call being looked at
    result_df,     \* get_data: what that call returned ("None" or a frame)
    region_names,  \* the request: selected_regions, a sequence of region names
    chart_type,    \* the request: "sale", "lease" or "both"
    task,          \* get_multiple_data: <<index into region_names, index into price_types>>
    all_data,      \* get_multiple_data: the list of per-task frames collected so far
    df,            \* main: the combined observation table load_data returned
    pc,            \* where the run is: "codec", "get_data", "idle", "fetch", "loaded", "nodata", "range", ...
    chart,         \* create_chart: what the last call plotted and signalled
    heatmap,       \* create_heatmap: what the last call built and signalled
    now,           \* calculate_date_range: datetime.now(), <<year, month, day>>
    period,        \* calculate_date_range: the period selected
    custom_start,  \* calculate_date_range: custom_start, digits of '%Y-%m-%d', or <<>>
    custom_end,    \* calculate_date_range: custom_end, likewise
    date_range,    \* calculate_date_range: the two dates and the two strings returned
    period_shown,  \* main: start_year, start_week, end_year, end_week read back
    fetched,       \* history: the get_data calls of the request so far and their outcomes
    collector,     \* RealEstateDataCollector.fetch_weekly_price_index: its locals
    cache,         \* st.cache_data: the entries of load_data, by arguments
    clock,         \* seconds since the session began
    last_call      \* history: the last load_data call and how it was answered

vars == <<date_obj, week_str, response, result_df, region_names, chart_type,
          task, all_data, df, pc, chart, heatmap,
          now, period, custom_start, custom_end, date_range, period_shown,
          fetched, collector, cache, clock, last_call>>

codecVars == <<date_obj, week_str>>
callVars == <<response, result_df>>
requestVars == <<region_names, chart_type>>
loadVars == <<task, all_data, df>>
viewVars == <<chart, heatmap>>
rangeVars == <<now, period, custom_start, custom_end, date_range, period_shown>>
logVars == <<fetched>>
collectorVars == <<collector>>
cacheVars == <<cache, clock, last_call>>

-----------------------------------------------------------------------------
(* Bounds of the model *)

\* dates of the codec specification lie in BaseYear - YearSpan .. BaseYear + YearSpan
YearSpan == 4
\* the largest number of rows one request's responses hold
MaxRows == 3

-----------------------------------------------------------------------------
(* Small helpers *)

Abs(x) == IF x < 0 THEN 0 - x ELSE x

Sign(x) == IF x < 0 THEN 0 - 1 ELSE IF x > 0 THEN 1 ELSE 0

RECURSIVE Gcd(_, _)
Gcd(a, b) == IF b = 0 THEN a ELSE Gcd(b, a % b)

Range(s) == {s[i] : i \in DOMAIN s}

SeqsUpTo(S, n) == UNION {[1..k -> S] : k \in 0..n}

RECURSIVE Flatten(_)
Flatten(ss) == IF ss = <<>> THEN <<>> ELSE Head(ss) \o Flatten(Tail(ss))

-----------------------------------------------------------------------------
(* Floats: exact fractions and the three special values *)

NaN == <<0, 0>>
PosInf == <<1, 0>>
NegInf == <<0 - 1, 0>>

IsNaN(x) == x = NaN
IsInf(x) == x[2] = 0 /\ x[1] # 0
IsFinite(x) == x[2] > 0

\* the fraction n/d (d # 0) in lowest terms with a positive denominator
Frac(n, d) ==
    LET g == Gcd(Abs(n), Abs(d))
        s == IF d < 0 THEN 0 - 1 ELSE 1
    IN  <<(s * n) \div g, (s * d) \div g>>

Num(i) == <<i, 1>>

FSign(x) == Sign(x[1])

\* x > 0 as Python evaluates it on a float: False for NaN
FGtZero(x) == ~IsNaN(x) /\ x[1] > 0

\* bool(x) of a float: False only for zero (NaN and inf are truthy)
FTruthy(x) == ~(IsFinite(x) /\ x[1] = 0)

\* x / y in IEEE arithmetic as numpy evaluates it (no exception on a zero divisor)
FDiv(x, y) ==
    IF IsNaN(x) \/ IsNaN(y) THEN NaN
    ELSE IF IsInf(x) THEN (IF IsInf(y) THEN NaN
                           ELSE <<FSign(x) * (IF y[1] < 0 THEN 0 - 1 ELSE 1), 0>>)
    ELSE IF IsInf(y) THEN Num(0)
    ELSE IF y[1] = 0 THEN <<FSign(x), 0>>
    ELSE Frac(x[1] * y[2], x[2] * y[1])

FMul(x, y) ==
    IF IsNaN(x) \/ IsNaN(y) THEN NaN
    ELSE IF IsInf(x) \/ IsInf(y) THEN <<FSign(x) * FSign(y), 0>>
    ELSE Frac(x[1] * y[1], x[2] * y[2])

FSub(x, y) ==
    IF IsNaN(x) \/ IsNaN(y) THEN NaN
    ELSE IF IsInf(x) THEN (IF IsInf(y) /\ FSign(x) = FSign(y) THEN NaN ELSE x)
    ELSE IF IsInf(y) THEN <<0 - FSign(y), 0>>
    ELSE Frac(x[1] * y[2] - y[1] * x[2], x[2] * y[2])

-----------------------------------------------------------------------------
(* Calendar: datetime's ordinals and ISO calendar *)

IsLeap(y) == y % 4 = 0 /\ (y % 100 # 0 \/ y % 400 = 0)

DaysInMonth(y, m) ==
    IF m = 2 THEN (IF IsLeap(y) THEN 29 ELSE 28)
    ELSE IF m \in {4, 6, 9, 11} THEN 30 ELSE 31

DaysBeforeYear(y) ==
    (y - 1) * 365 + (y - 1) \div 4 - (y - 1) \div 100 + (y - 1) \div 400

RECURSIVE DaysBeforeMonth(_, _)
DaysBeforeMonth(y, m) ==
    IF m = 1 THEN 0 ELSE DaysBeforeMonth(y, m - 1) + DaysInMonth(y, m - 1)

\* datetime(y, m, d).toordinal()
Ymd2Ord(y, m, d) == DaysBeforeYear(y) + DaysBeforeMonth(y, m) + d

ValidYmd(t) ==
    /\ t[1] \in 1..9999
    /\ t[2] \in 1..12
    /\ t[3] \in 1..DaysInMonth(t[1], t[2])

\* the ordinal of the Monday that starts ISO week 1 of year y
IsoWeek1Monday(y) ==
    LET firstday == Ymd2Ord(y, 1, 1)
        firstweekday == (firstday + 6) % 7
        week1monday == firstday - firstweekday
    IN  IF firstweekday > 3 THEN week1monday + 7 ELSE week1monday

\* datetime(y, m, d).isocalendar()[0:2], a pair <<ISO year, ISO week>>
IsoCalendar(t) ==
    LET year == t[1]
        today == Ymd2Ord(t[1], t[2], t[3])
        week == (today - IsoWeek1Monday(year)) \div 7
    IN  IF week < 0
        THEN <<year - 1, (today - IsoWeek1Monday(year - 1)) \div 7 + 1>>
        ELSE IF week >= 52 /\ today >= IsoWeek1Monday(year + 1)
        THEN <<year + 1, 1>>
        ELSE <<year, week + 1>>

-----------------------------------------------------------------------------
(* Strings of digits: Python's integer formatting and int() *)

\* str(n) for n >= 0: the decimal digits of n
RECURSIVE Digits(_)
Digits(n) == IF n < 10 THEN <<n>> ELSE Append(Digits(n \div 10), n % 10)

\* f"{n:02d}" for n >= 0: at least two digits, zero-padded
Pad02d(n) == IF n < 10 THEN <<0, n>> ELSE Digits(n)

\* a mutant of date_to_week_format: the plain calendar year instead of the ISO year
date_to_week_format_calendar_year(d) == Digits(d[1]) \o Pad02d(IsoCalendar(d)[2])

\* date_to_week_format(date_obj): f"{year}{week:02d}" of the date's ISO calendar
date_to_week_format(d) ==
    LET year == IsoCalendar(d)[1]
        week == IsoCalendar(d)[2]
    IN  Digits(year) \o Pad02d(week)

-----------------------------------------------------------------------------
(* The codec specification: one call of date_to_week_format on any date *)

BaseYear == 2022

CodecYears == (BaseYear - YearSpan)..(BaseYear + YearSpan)

CodecDates ==
    {t \in CodecYears \X (1..12) \X (1..31) : ValidYmd(t)}

NoStr == <<>>

NoHttp == [kind |-> "none", date_col |-> "none", has_val |-> FALSE, rows |-> <<>>]

None == [none |-> TRUE, rows |-> <<>>]

Frame(rows) == [none |-> FALSE, rows |-> rows]

NoView == [made |-> FALSE]

IdleCodec == date_obj = <<1, 1, 1>> /\ week_str = NoStr

IdleCall == response = [price_type |-> "", http |-> NoHttp] /\ result_df = None

IdleRequest == region_names = <<>> /\ chart_type = ""

IdleLoad == task = <<0, 0>> /\ all_data = <<>> /\ df = <<>>

IdleView == chart = NoView /\ heatmap = NoView

NoRange == [start_date |-> <<1, 1, 1>>, end_date |-> <<1, 1, 1>>,
            start_str |-> NoStr, end_str |-> NoStr]

IdleRange ==
    /\ now = <<1, 1, 1>> /\ period = ""
    /\ custom_start = NoStr /\ custom_end = NoStr
    /\ date_range = NoRange /\ period_shown = <<>>

IdleLog == fetched = <<>>

NoCollector == [pc |-> "none"]

IdleCollector == collector = NoCollector

NoCall == [made |-> FALSE]

IdleCache == cache = {} /\ clock = 0 /\ last_call = NoCall

InitCodec ==
    /\ pc = "codec"
    /\ date_obj \in CodecDates
    /\ week_str = NoStr
    /\ IdleCall /\ IdleRequest /\ IdleLoad /\ IdleView /\ IdleRange
    /\ IdleLog /\ IdleCollector /\ IdleCache

CallDateToWeekFormat ==
    /\ pc = "codec"
    /\ week_str = NoStr
    /\ week_str' = date_to_week_format(date_obj)
    /\ UNCHANGED <<date_obj, pc, callVars, requestVars, loadVars, viewVars, rangeVars,
                 logVars, collectorVars, cacheVars>>

NextCodec == CallDateToWeekFormat

SpecCodec == InitCodec /\ [][NextCodec]_vars

-----------------------------------------------------------------------------
(* C1 *)

\* the years of the longest period of calculate_date_range
LongestPeriod == 10

\* the calendar year that holds ordinal o
YearOfOrdinal(o) ==
    CHOOSE y \in (BaseYear - YearSpan - LongestPeriod - 1)..(BaseYear + YearSpan + 1) :
        Ymd2Ord(y, 1, 1) <= o /\ o < Ymd2Ord(y + 1, 1, 1)

\* ISO 8601, stated directly: a date belongs to the week-numbering year of the
\* Thursday of its Monday-to-Sunday week, and its week number counts the
\* Thursdays of that year up to that one
IsoThursday(t) ==
    LET o == Ymd2Ord(t[1], t[2], t[3]) IN o - ((o + 6) % 7) + 3

Iso8601Year(t) == YearOfOrdinal(IsoThursday(t))

Iso8601Week(t) ==
    (IsoThursday(t) - Ymd2Ord(Iso8601Year(t), 1, 1)) \div 7 + 1

\* C1: date_to_week_format(d) is exactly six digits, the ISO-8601 year of d
\* followed by the ISO week of d zero-padded to two digits; the year is
\* the ISO year, not the calendar year: 2024-12-31 and 2025-01-01 both give
\* 202501, and 2021-01-01 gives 202053.
C1_WeekFormatIsIsoYearWeek ==
    week_str # NoStr =>
        /\ Len(week_str) = 6
        /\ \A i \in 1..6 : week_str[i] \in 0..9
        /\ SubSeq(week_str, 1, 4) = Digits(Iso8601Year(date_obj))
        /\ week_str[5] * 10 + week_str[6] = Iso8601Week(date_obj)
        /\ Iso8601Week(date_obj) \in 1..53
        /\ (date_obj = <<2024, 12, 31>> => week_str = <<2, 0, 2, 5, 0, 1>>)
        /\ (date_obj = <<2025, 1, 1>> => week_str = <<2, 0, 2, 5, 0, 1>>)
        /\ (date_obj = <<2021, 1, 1>> => week_str = <<2, 0, 2, 0, 5, 3>>)

\* a December date already in week 1 of the next ISO year has been encoded
C1_Witness ==
    /\ week_str # NoStr
    /\ date_obj = <<2024, 12, 31>>
    /\ Iso8601Year(date_obj) = 2025

-----------------------------------------------------------------------------
(* Ingestion: PriceIndexAPI.get_data                                        *)
(*                                                                         *)
(* An HTTP outcome is [kind, date_col, has_val, rows]: kind "http_error"   *)
(* (requests.get or raise_for_status raised), "api_error" (a RESULT code   *)
(* other than INFO-000) or "ok"; date_col names the date column the rows   *)
(* carry and has_val says whether they carry DTA_VAL.  A raw row is        *)
(* [date |-> <<y, m, d>>, val |-> <<"num", n>> or <<"text", 0>>]: the      *)
(* fields the date format reads, and a numeric or a non-numeric value.     *)
(* A frame is a sequence of rows in index order.                            *)
(***************************************************************************)

\* pandas' NaT, as a date no ordinal equals
NaT == 0

\* PriceIndexAPI.STATBL_IDS: "sale" stands for the key '매매', "lease" for '전세'
STATBL_IDS == {"sale", "lease"}

\* pd.to_datetime(text, format=..., errors='coerce'): NaT for a date that does not parse
to_datetime(ymd) == IF ValidYmd(ymd) THEN Ymd2Ord(ymd[1], ymd[2], ymd[3]) ELSE NaT

\* pd.to_numeric(text, errors='coerce'): NaN for a value that is not a number
to_numeric(val) == IF val[1] = "num" THEN Num(val[2]) ELSE NaN

\* sort_values('날짜') puts NaT last
DateKey(r) == IF r.date = NaT THEN Ymd2Ord(9999, 12, 31) + 1 ELSE r.date

\* r goes behind every row whose date is not later (rows of one date keep their order)
RECURSIVE InsertByDate(_, _)
InsertByDate(sorted, r) ==
    IF sorted = <<>> THEN <<r>>
    ELSE IF DateKey(Head(sorted)) <= DateKey(r)
         THEN <<Head(sorted)>> \o InsertByDate(Tail(sorted), r)
         ELSE <<r>> \o sorted

\* frame.sort_values('날짜'): ascending by date
RECURSIVE sort_values(_)
sort_values(rows) ==
    IF rows = <<>> THEN <<>>
    ELSE InsertByDate(sort_values(SubSeq(rows, 1, Len(rows) - 1)), rows[Len(rows)])

\* a mutant of dropna: only rows without a date are dropped
dropna_date_only(rows) == SelectSeq(rows, LAMBDA r : r.date # NaT)

\* frame.dropna(subset=['날짜', '지수'])
dropna(rows) == SelectSeq(rows, LAMBDA r : r.date # NaT /\ ~IsNaN(r.index))

\* a mutant of get_data: the response's rows are taken in the order they came
get_data_unsorted(price_type, http) ==
    IF price_type \notin STATBL_IDS \/ http.kind # "ok" \/ http.rows = <<>>
       \/ http.date_col = "none" \/ ~http.has_val
    THEN None
    ELSE Frame(dropna([i \in DOMAIN http.rows |->
            [date |-> to_datetime(http.rows[i].date),
             index |-> to_numeric(http.rows[i].val),
             price_type |-> price_type]]))

\* PriceIndexAPI.get_data(price_type, start_date, end_date, region_code), given
\* the outcome of its one HTTP request
get_data(price_type, http) ==
    IF price_type \notin STATBL_IDS THEN None
    ELSE IF http.kind # "ok" THEN None
    ELSE IF http.rows = <<>> THEN None
    \* df['날짜'] or df['지수'] was never set: a KeyError, caught, None
    ELSE IF http.date_col = "none" \/ ~http.has_val THEN None
    ELSE LET parsed == [i \in DOMAIN http.rows |->
                          [date |-> to_datetime(http.rows[i].date),
                           index |-> to_numeric(http.rows[i].val),
                           price_type |-> price_type]]
         IN  Frame(dropna(sort_values(parsed)))

-----------------------------------------------------------------------------
(* The get_data specification: one call of get_data on any small response *)

Ymd(o) == CHOOSE t \in {BaseYear} \X (1..12) \X (1..31) : ValidYmd(t) /\ to_datetime(t) = o

\* 2022-01-31, the base_date of create_chart
base_date == Ymd2Ord(BaseYear, 1, 31)

\* the weeks before and after the base date, and a date that does not parse
CallDates == {Ymd(base_date - 7), Ymd(base_date + 7), <<BaseYear, 2, 30>>}

CallVals == {<<"num", 100>>, <<"num", 110>>, <<"text", 0>>}

CallRows == [date : CallDates, val : CallVals]

CallResponses ==
    {[kind |-> "http_error", date_col |-> "none", has_val |-> FALSE, rows |-> <<>>],
     [kind |-> "api_error", date_col |-> "none", has_val |-> FALSE, rows |-> <<>>]}
    \cup [kind : {"ok"}, date_col : {"WRTTIME_DESC", "WRTTIME_IDTFR_ID"},
          has_val : {TRUE}, rows : SeqsUpTo(CallRows, MaxRows)]
    \cup [kind : {"ok"}, date_col : {"WRTTIME_DESC", "none"},
          has_val : BOOLEAN, rows : SeqsUpTo(CallRows, 1)]

InitGetData ==
    /\ pc = "get_data"
    /\ IdleCodec /\ IdleCall /\ IdleRequest /\ IdleLoad /\ IdleView /\ IdleRange
    /\ IdleLog /\ IdleCollector /\ IdleCache

CallGetData(price_type, http) ==
    /\ pc = "get_data"
    /\ response.http = NoHttp
    /\ response' = [price_type |-> price_type, http |-> http]
    /\ result_df' = get_data(price_type, http)
    /\ UNCHANGED <<pc, codecVars, requestVars, loadVars, viewVars, rangeVars,
                 logVars, collectorVars, cacheVars>>

NextGetData ==
    \E price_type \in STATBL_IDS \cup {"rent"}, http \in CallResponses :
        CallGetData(price_type, http)

SpecGetData == InitGetData /\ [][NextGetData]_vars

-----------------------------------------------------------------------------
(* C10 *)

WellFormed(raw) == ValidYmd(raw.date) /\ raw.val[1] = "num"

\* how many rows of the response are the well-formed row raw
CountRaw(rows, raw) == Cardinality({i \in DOMAIN rows : rows[i] = raw})

\* how many rows of the frame carry raw's date and value
CountKept(rows, raw) ==
    Cardinality({i \in DOMAIN rows :
        /\ rows[i].date = Ymd2Ord(raw.date[1], raw.date[2], raw.date[3])
        /\ rows[i].index = <<raw.val[2], 1>>})

\* C10: the table get_data returns holds no row with a null date or a null
\* value, and holds every well-formed row of the response (as often as the
\* response holds it) and nothing else; a response with rows and both
\* columns always yields a table, even when every row of it is malformed.
C10_MalformedRowsDropped ==
    LET http == response.http
        rows == result_df.rows
    IN  /\ ~result_df.none =>
            /\ \A i \in DOMAIN rows : rows[i].date # NaT /\ rows[i].index # NaN
            /\ \A raw \in CallRows :
                   WellFormed(raw) => CountKept(rows, raw) = CountRaw(http.rows, raw)
            /\ Len(rows) = Cardinality({i \in DOMAIN http.rows : WellFormed(http.rows[i])})
        /\ (/\ response.price_type \in STATBL_IDS
            /\ http.kind = "ok" /\ http.rows # <<>>
            /\ http.date_col # "none" /\ http.has_val) => ~result_df.none

\* a response mixing a row with an unparseable date, a row with a non-numeric
\* value and a well-formed row has been ingested
C10_Witness ==
    /\ ~result_df.none
    /\ Len(result_df.rows) = 1
    /\ \E i, j, k \in DOMAIN response.http.rows :
        /\ ~ValidYmd(response.http.rows[i].date)
        /\ ValidYmd(response.http.rows[j].date) /\ response.http.rows[j].val[1] = "text"
        /\ WellFormed(response.http.rows[k])

-----------------------------------------------------------------------------
(* Ingestion: PriceIndexAPI.get_multiple_data                               *)
(***************************************************************************)

\* PriceIndexAPI.REGION_CODES, cut to two of its entries: "Seoul" stands for the
\* key '서울', "Gyeonggi" for '경기'; every other name is unknown
REGION_CODES == [Seoul |-> "50008", Gyeonggi |-> "50016"]

\* a region name that is no key of REGION_CODES
UnknownRegion == "Atlantis"

\* main: the price types a chart type asks for
price_types_of(ct) ==
    IF ct = "sale" THEN <<"sale">>
    ELSE IF ct = "lease" THEN <<"lease">>
    ELSE <<"sale", "lease">>

\* the get_data calls get_multiple_data makes, in order: one per known region
\* and price type (an unknown region is skipped by `continue`)
RECURSIVE task_list(_, _)
task_list(regions, price_types) ==
    IF regions = <<>> THEN <<>>
    ELSE (IF Head(regions) \in DOMAIN REGION_CODES
          THEN [j \in DOMAIN price_types |->
                   [region |-> Head(regions), price_type |-> price_types[j]]]
          ELSE <<>>)
         \o task_list(Tail(regions), price_types)

\* df['지역'] = region_name
with_region(frame, region) ==
    [i \in DOMAIN frame |->
        [date |-> frame[i].date, index |-> frame[i].index,
         price_type |-> frame[i].price_type, region |-> region]]

\* a mutant of collect: a call without a frame discards what was collected
collect_or_discard(data, got, region) ==
    IF ~got.none /\ got.rows # <<>>
    THEN Append(data, with_region(got.rows, region))
    ELSE <<>>

\* all_data after one get_data call returned got
collect(data, got, region) ==
    IF ~got.none /\ got.rows # <<>>
    THEN Append(data, with_region(got.rows, region))
    ELSE data

\* pd.concat(all_data, ignore_index=True), or the empty DataFrame
combine(data) == Flatten(data)

-----------------------------------------------------------------------------
(* create_chart: the normalisation to 2022-01-31 = 100 and the traces *)

\* the rows of the frame selected by the boolean mask, as positions (index labels)
mask_of(frame, region, price_type) ==
    {i \in DOMAIN frame :
        frame[i].region = region /\ frame[i].price_type = price_type}

\* abs((date - base_date).dt.days)
date_diff(frame, i) == Abs(frame[i].date - base_date)

\* the first row of the group: a mutant of idxmin
idxmin_first_row(frame, mask) == CHOOSE i \in mask : \A j \in mask : i <= j

\* the latest of the nearest rows: a mutant of idxmin
idxmin_last_tie(frame, mask) ==
    CHOOSE i \in mask : \A j \in mask :
        \/ date_diff(frame, i) < date_diff(frame, j)
        \/ date_diff(frame, i) = date_diff(frame, j) /\ i >= j

\* region_data['날짜_diff'].idxmin(): the label of the first minimum
idxmin(frame, mask) ==
    CHOOSE i \in mask : \A j \in mask :
        \/ date_diff(frame, i) < date_diff(frame, j)
        \/ date_diff(frame, i) = date_diff(frame, j) /\ i <= j

\* mutants of the guard: any base value, and any non-zero base value
base_value_unguarded(base_value) == TRUE

\* `if base_value and base_value > 0`
base_value_ok(base_value) == FTruthy(base_value) /\ FGtZero(base_value)

\* a mutant of the rebasing: the factor 100 is left out
rebase_ratio(value, base_value) == FDiv(value, base_value)

\* (value / base_value) * 100
rebase(value, base_value) == FMul(FDiv(value, base_value), Num(100))

\* what one pass of the loop body leaves: df_normalized, and the pass's
\* base_idx and base_value appended to the passes made so far
normalized_by(st, mask, base_idx, base_value) ==
    [frame |-> IF base_value_ok(base_value)
               THEN [i \in DOMAIN st.frame |->
                       IF i \in mask
                       THEN [st.frame[i] EXCEPT !.index = rebase(@, base_value)]
                       ELSE st.frame[i]]
               ELSE st.frame,
     orig |-> st.orig,
     passes |-> Append(st.passes, [mask |-> mask, base_idx |-> base_idx,
                                   base_value |-> base_value])]

\* a mutant of the loop body: the base value is read from df, not df_normalized
normalize_group_stale(st, region, price_type) ==
    LET mask == mask_of(st.frame, region, price_type)
    IN  IF mask = {} THEN st
        ELSE LET base_idx == idxmin(st.orig, mask)
             IN  normalized_by(st, mask, base_idx, st.orig[base_idx].index)

\* the body of the loops of create_chart for one region and price type:
\* st.frame is df_normalized, st.orig is df
normalize_group(st, region, price_type) ==
    LET mask == mask_of(st.frame, region, price_type)
    IN  IF mask = {} THEN st
        ELSE LET base_idx == idxmin(st.frame, mask)
             IN  normalized_by(st, mask, base_idx, st.frame[base_idx].index)

\* df['가격유형'].unique(): the price types in order of first appearance
RECURSIVE unique_price_types(_)
unique_price_types(frame) ==
    IF frame = <<>> THEN <<>>
    ELSE LET before == unique_price_types(SubSeq(frame, 1, Len(frame) - 1))
             pt == frame[Len(frame)].price_type
         IN  IF pt \in Range(before) THEN before ELSE Append(before, pt)

RECURSIVE normalize_types(_, _, _)
normalize_types(st, region, types) ==
    IF types = <<>> THEN st
    ELSE normalize_types(normalize_group(st, region, Head(types)), region, Tail(types))

\* for region in regions: for price_type in df['가격유형'].unique(): ...
RECURSIVE normalize_regions(_, _)
normalize_regions(st, regions) ==
    IF regions = <<>> THEN st
    ELSE normalize_regions(
             normalize_types(st, Head(regions), unique_price_types(st.orig)),
             Tail(regions))

\* the normalisation block of create_chart, from df_normalized = df.copy() on
normalize_table(table, regions) ==
    normalize_regions([frame |-> table, orig |-> table, passes |-> <<>>], regions)

\* a mutant of the caller's table after create_chart: df_normalized is df
\* itself, not a copy, and the loop's assignments land in the caller's table
df_after_create_chart_in_place(table, regions, normalize) ==
    IF table # <<>> /\ normalize THEN normalize_table(table, regions).frame ELSE table

\* the caller's table after create_chart(df, ...): the loop assigns into
\* df_normalized, which is df.copy(), and `df = df_normalized` rebinds the
\* parameter only; the filters that follow make new frames
df_after_create_chart(table, regions, normalize) == table

\* the rows of one region and price type, in table order
rows_of(frame, region, price_type) ==
    SelectSeq(frame, LAMBDA r : r.region = region /\ r.price_type = price_type)

\* the traces added to the figure: per region (and per price type of the chart
\* type) one line through the rows of that region, when it has any
RECURSIVE traces_of(_, _, _)
traces_of(frame, regions, types) ==
    IF regions = <<>> THEN <<>>
    ELSE SelectSeq([j \in DOMAIN types |->
                      [region |-> Head(regions), price_type |-> types[j],
                       points |-> rows_of(frame, Head(regions), types[j])]],
                   LAMBDA t : t.points # <<>>)
         \o traces_of(frame, Tail(regions), types)

\* create_chart(df, chart_type, regions, normalize): what it draws and signals.
\* It returns nothing and raises nothing; its only signal is the warning for an
\* empty table.  frame is the table the traces are read from, passes the
\* base_idx and base_value of every pass of the normalisation loop.
create_chart(table, ct, regions, normalize) ==
    IF table = <<>>
    THEN [made |-> TRUE, normalize |-> normalize, signal |-> "warning",
          frame |-> <<>>, passes |-> <<>>, traces |-> <<>>]
    ELSE LET st == IF normalize THEN normalize_table(table, regions)
                   ELSE [frame |-> table, orig |-> table, passes |-> <<>>]
         IN  [made |-> TRUE, normalize |-> normalize, signal |-> "none",
              frame |-> st.frame, passes |-> st.passes,
              traces |-> traces_of(st.frame, regions, price_types_of(ct))]

-----------------------------------------------------------------------------
(* create_heatmap and _create_single_heatmap: the change-rate matrix *)

\* a mutant of the cumulative rate: the change is not divided by the base
cumulative_rate_undivided(value, base_index) ==
    FMul(FSub(value, base_index), Num(100))

\* ((value - base_index) / base_index) * 100
cumulative_rate(value, base_index) ==
    FMul(FDiv(FSub(value, base_index), base_index), Num(100))

\* a mutant of pct_change: every change is taken against the first value
pct_change_from_first(values) ==
    [i \in DOMAIN values |->
        IF i = 1 THEN NaN ELSE FSub(FDiv(values[i], values[1]), Num(1))]

\* Series.pct_change(): value / previous value - 1, NaN for the first
pct_change(values) ==
    [i \in DOMAIN values |->
        IF i = 1 THEN NaN ELSE FSub(FDiv(values[i], values[i - 1]), Num(1))]

\* Series.fillna(0), one cell
fillna0(x) == IF IsNaN(x) THEN Num(0) ELSE x

\* a mutant of base_index_ok: only a zero base is refused
base_index_nonzero(base_index) == FTruthy(base_index)

\* `if base_index and base_index > 0`
base_index_ok(base_index) == FTruthy(base_index) /\ FGtZero(base_index)

\* what one pass of the loop over regions appends to heatmap_data: the rows
\* (date, region, rate) of the region, or nothing
region_rates(table, region, mode) ==
    LET region_data == sort_values(SelectSeq(table, LAMBDA r : r.region = region))
    IN  IF region_data = <<>> THEN <<>>
        ELSE IF mode = "cumulative"
        THEN LET base_index == region_data[1].index
             IN  IF base_index_ok(base_index)
                 THEN [i \in DOMAIN region_data |->
                         [date |-> region_data[i].date, region |-> region,
                          rate |-> cumulative_rate(region_data[i].index, base_index)]]
                 ELSE <<>>
        ELSE LET pct == pct_change([i \in DOMAIN region_data |-> region_data[i].index])
             IN  [i \in DOMAIN region_data |->
                     [date |-> region_data[i].date, region |-> region,
                      rate |-> fillna0(FMul(pct[i], Num(100)))]]

RECURSIVE heatmap_data_of(_, _, _)
heatmap_data_of(table, regions, mode) ==
    IF regions = <<>> THEN <<>>
    ELSE LET rows == region_rates(table, Head(regions), mode)
         IN  (IF rows = <<>> THEN <<>> ELSE <<rows>>)
             \o heatmap_data_of(table, Tail(regions), mode)

\* the dates of a set, ascending: the columns of the pivot table
RECURSIVE sorted_dates(_)
sorted_dates(S) ==
    IF S = {} THEN <<>>
    ELSE LET m == CHOOSE x \in S : \A y \in S : x <= y
         IN  <<m>> \o sorted_dates(S \ {m})

\* a mutant of the pivot: a cell without a row is filled with 0
pivot_reindex_fill0(combined, regions) ==
    IF \E i, j \in DOMAIN combined :
           i # j /\ combined[i].region = combined[j].region
                 /\ combined[i].date = combined[j].date
    THEN [status |-> "ValueError", columns |-> <<>>, z |-> <<>>]
    ELSE LET columns == sorted_dates({combined[i].date : i \in DOMAIN combined})
             cell(region, date) ==
                 IF \E i \in DOMAIN combined :
                        combined[i].region = region /\ combined[i].date = date
                 THEN combined[CHOOSE i \in DOMAIN combined :
                        combined[i].region = region /\ combined[i].date = date].rate
                 ELSE Num(0)
         IN  [status |-> "ok", columns |-> columns,
              z |-> [r \in DOMAIN regions |->
                        [c \in DOMAIN columns |-> cell(regions[r], columns[c])]]]

\* combined_df.pivot(index='지역', columns='날짜', values='변화율').reindex(regions):
\* a ValueError when two rows share region and date; otherwise one row per
\* entry of regions, one column per date, NaN where combined_df has no row
pivot_reindex(combined, regions) ==
    IF \E i, j \in DOMAIN combined :
           i # j /\ combined[i].region = combined[j].region
                 /\ combined[i].date = combined[j].date
    THEN [status |-> "ValueError", columns |-> <<>>, z |-> <<>>]
    ELSE LET columns == sorted_dates({combined[i].date : i \in DOMAIN combined})
             cell(region, date) ==
                 IF \E i \in DOMAIN combined :
                        combined[i].region = region /\ combined[i].date = date
                 THEN combined[CHOOSE i \in DOMAIN combined :
                        combined[i].region = region /\ combined[i].date = date].rate
                 ELSE NaN
         IN  [status |-> "ok", columns |-> columns,
              z |-> [r \in DOMAIN regions |->
                        [c \in DOMAIN columns |-> cell(regions[r], columns[c])]]]

\* _create_single_heatmap(df, regions, title, mode): status "warning" when there
\* is nothing to draw, "ValueError" when pivot raises, else the matrix
single_heatmap(table, regions, mode) ==
    IF table = <<>> THEN [status |-> "warning", columns |-> <<>>, z |-> <<>>]
    ELSE LET heatmap_data == heatmap_data_of(table, regions, mode)
         IN  IF heatmap_data = <<>>
             THEN [status |-> "warning", columns |-> <<>>, z |-> <<>>]
             ELSE pivot_reindex(Flatten(heatmap_data), regions)

of_type(table, price_type) == SelectSeq(table, LAMBDA r : r.price_type = price_type)

\* the caller's table after create_heatmap(df, ...): every frame written to
\* (the rate and region columns of region_data) is a .copy() of a selection
\* that sort_values made anew
df_after_create_heatmap(table, regions, ct, mode) == table

\* create_heatmap(df, regions, chart_type, mode): the heatmaps built, in order,
\* each with its price type; an exception of one ends the call
create_heatmap(table, regions, ct, mode) ==
    IF table = <<>>
    THEN [made |-> TRUE, mode |-> mode, signal |-> "warning", maps |-> <<>>]
    ELSE IF ct \in {"sale", "lease"}
    THEN LET m == single_heatmap(of_type(table, ct), regions, mode)
         IN  [made |-> TRUE, mode |-> mode,
              signal |-> IF m.status = "ValueError" THEN "ValueError" ELSE "none",
              maps |-> <<[price_type |-> ct, map |-> m]>>]
    ELSE LET sale == of_type(table, "sale")
             lease == of_type(table, "lease")
             ms == IF sale = <<>> THEN <<>>
                   ELSE <<[price_type |-> "sale",
                           map |-> single_heatmap(sale, regions, mode)]>>
             raised == ms # <<>> /\ ms[1].map.status = "ValueError"
             ml == IF lease = <<>> \/ raised THEN <<>>
                   ELSE <<[price_type |-> "lease",
                           map |-> single_heatmap(lease, regions, mode)]>>
         IN  [made |-> TRUE, mode |-> mode,
              signal |-> IF raised \/ (ml # <<>> /\ ml[1].map.status = "ValueError")
                         THEN "ValueError" ELSE "none",
              maps |-> ms \o ml]

-----------------------------------------------------------------------------
(* The request pipeline of main: query, load, chart, heatmap *)

\* the get_data calls of the current request
tasks == task_list(region_names, price_types_of(chart_type))

\* the rows collected so far
rows_so_far == Len(combine(all_data))

InitPipeline ==
    /\ pc = "idle"
    /\ IdleCodec /\ IdleCall /\ IdleRequest /\ IdleLoad /\ IdleView /\ IdleRange
    /\ IdleLog /\ IdleCollector /\ IdleCache

\* main, the query button pressed with a non-empty selection: load_data begins.
\* With no known region among the names get_multiple_data makes no request and
\* returns the empty table at once, and main stops at `if df.empty`.
Query(regions, ct) ==
    /\ pc = "idle"
    /\ regions # <<>>
    /\ region_names' = regions
    /\ chart_type' = ct
    /\ task' = 0
    /\ all_data' = <<>>
    /\ df' = <<>>
    /\ pc' = IF task_list(regions, price_types_of(ct)) = <<>> THEN "nodata" ELSE "fetch"
    /\ fetched' = <<>>
    /\ UNCHANGED <<codecVars, callVars, viewVars, rangeVars,
                 collectorVars, cacheVars>>

\* get_multiple_data, one pass of its inner loop: the next get_data call, whose
\* HTTP request ends as http.  After the last call the frames are combined into
\* the table, and main stops when the table is empty.
FetchStep(http) ==
    /\ pc = "fetch"
    /\ task < Len(tasks)
    /\ Len(http.rows) + rows_so_far <= MaxRows
    /\ LET t == tasks[task + 1]
           got == get_data(t.price_type, http)
           data == collect(all_data, got, t.region)
       IN  /\ all_data' = data
           /\ task' = task + 1
           /\ IF task + 1 = Len(tasks)
              THEN /\ df' = combine(data)
                   /\ pc' = IF combine(data) = <<>> THEN "nodata" ELSE "loaded"
              ELSE UNCHANGED <<df, pc>>
    /\ UNCHANGED <<codecVars, callVars, requestVars, viewVars, rangeVars,
                 collectorVars, cacheVars>>

Fetch(http) == FetchStep(http) /\ UNCHANGED logVars

\* the same pass, with the call and its outcome written to the history
FetchLogged(http) ==
    /\ FetchStep(http)
    /\ fetched' = Append(fetched, [region |-> tasks[task + 1].region,
                                   price_type |-> tasks[task + 1].price_type,
                                   http |-> http])

\* main, tab 1: create_chart(df, chart_type, selected_regions, normalize_base)
CreateChart(normalize) ==
    /\ pc = "loaded"
    /\ ~chart.made
    /\ chart' = create_chart(df, chart_type, region_names, normalize)
    /\ df' = df_after_create_chart(df, region_names, normalize)
    /\ UNCHANGED <<pc, heatmap, task, all_data, codecVars, callVars, requestVars,
                 rangeVars, logVars, collectorVars, cacheVars>>

\* main, tab 2: create_heatmap(df, selected_regions, chart_type, heatmap_mode)
CreateHeatmap(mode) ==
    /\ pc = "loaded"
    /\ ~heatmap.made
    /\ heatmap' = create_heatmap(df, region_names, chart_type, mode)
    /\ df' = df_after_create_heatmap(df, region_names, chart_type, mode)
    /\ UNCHANGED <<pc, chart, task, all_data, codecVars, callVars, requestVars,
                 rangeVars, logVars, collectorVars, cacheVars>>

HeatmapModes == {"cumulative", "step"}

Render ==
    \/ \E normalize \in BOOLEAN : CreateChart(normalize)
    \/ \E mode \in HeatmapModes : CreateHeatmap(mode)

OkResponses(rows) ==
    [kind : {"ok"}, date_col : {"WRTTIME_DESC"}, has_val : {TRUE}, rows : rows]

FailedResponses ==
    {[kind |-> "http_error", date_col |-> "none", has_val |-> FALSE, rows |-> <<>>],
     [kind |-> "api_error", date_col |-> "none", has_val |-> FALSE, rows |-> <<>>],
     [kind |-> "ok", date_col |-> "WRTTIME_DESC", has_val |-> FALSE,
      rows |-> <<[date |-> Ymd(base_date), val |-> <<"text", 0>>]>>]}

(* One region, one price type, any series of up to MaxRows weekly values *)

SeriesDates == {Ymd(base_date - 7), Ymd(base_date), Ymd(base_date + 7)}

SeriesVals == {<<"num", v>> : v \in {0 - 100, 0, 99, 100, 110}}

SeriesResponses(n) == OkResponses(SeqsUpTo([date : SeriesDates, val : SeriesVals], n))

NextSeries ==
    \/ Query(<<"Seoul">>, "sale")
    \/ /\ pc = "fetch"
       /\ \E http \in SeriesResponses(MaxRows - rows_so_far) : Fetch(http)
    \/ Render

SpecSeries == InitPipeline /\ [][NextSeries]_vars

(* Any request of one or two names, any chart type, small responses *)

RequestNames == DOMAIN REGION_CODES \cup {UnknownRegion}

RegionLists == {<<a>> : a \in RequestNames} \cup {<<a, b>> : a, b \in RequestNames}

PipelineRows ==
    {[date |-> Ymd(base_date - 7), val |-> <<"num", 110>>],
     [date |-> Ymd(base_date - 7), val |-> <<"num", 0>>],
     [date |-> Ymd(base_date), val |-> <<"num", 0 - 100>>],
     [date |-> Ymd(base_date + 7), val |-> <<"num", 110>>],
     [date |-> <<BaseYear, 2, 30>>, val |-> <<"num", 110>>]}

PipelineResponses(n) == FailedResponses \cup OkResponses(SeqsUpTo(PipelineRows, n))

Next ==
    \/ /\ pc = "idle"
       /\ \E regions \in RegionLists, ct \in {"sale", "lease", "both"} :
              Query(regions, ct)
    \/ /\ pc = "fetch"
       /\ \E http \in PipelineResponses(MaxRows - rows_so_far) : Fetch(http)
    \/ Render

Spec == InitPipeline /\ [][Next]_vars

(* The load alone, with its history: which calls were made and what came back *)

\* the rows of its responses: a well-formed row and a row whose date does not parse
LoadRows ==
    {[date |-> Ymd(base_date - 7), val |-> <<"num", 110>>],
     [date |-> <<BaseYear, 2, 30>>, val |-> <<"num", 110>>]}

\* the responses of one call when the request can take n more rows: the failed
\* ones, the empty one and those of one or two rows
LoadResponses(n) ==
    FailedResponses \cup OkResponses(SeqsUpTo(LoadRows, IF n < 2 THEN n ELSE 2))

NextLoad ==
    \/ /\ pc = "idle"
       /\ \E regions \in RegionLists, ct \in {"sale", "lease", "both"} :
              Query(regions, ct)
    \/ /\ pc = "fetch"
       /\ \E http \in LoadResponses(MaxRows - rows_so_far) : FetchLogged(http)

SpecLoad == InitPipeline /\ [][NextLoad]_vars

-----------------------------------------------------------------------------
(* The collector: RealEstateDataCollector.fetch_weekly_price_index *)

\* the most weeks a call of the collector is asked for
MaxWeeks == 2

\* self.sido_codes, cut to three of its entries: "Nationwide" stands for '전국'
sido_codes == [Nationwide |-> "00", Seoul |-> "11", Gyeonggi |-> "41"]

\* self.sido_codes.get(sido, '00')
sido_code_of(sido) == IF sido \in DOMAIN sido_codes THEN sido_codes[sido] ELSE "00"

\* _get_sido_name(sido_code): the first name with the code, or '알수없음'
_get_sido_name(code) ==
    IF \E name \in DOMAIN sido_codes : sido_codes[name] = code
    THEN CHOOSE name \in DOMAIN sido_codes : sido_codes[name] = code
    ELSE "Unknown"

\* the rows _fetch_single_week_data makes of the items of one response: an item
\* is the sidoCode it carries, or "absent" when it carries none
processed_items(items, sido_code, week) ==
    [i \in DOMAIN items |->
        [week |-> week,
         sido |-> _get_sido_name(IF items[i] = "absent" THEN sido_code ELSE items[i])]]

\* what one request can come to: an exception (the request or the parsing
\* failed), or the items of the response
WeekOutcomes ==
    {[raised |-> TRUE, items |-> <<>>]}
    \cup [raised : {FALSE}, items : SeqsUpTo({"absent", "11", "99"}, 1)]

InitCollector ==
    /\ pc = "collector"
    /\ IdleCodec /\ IdleCall /\ IdleRequest /\ IdleLoad /\ IdleView /\ IdleRange
    /\ IdleLog /\ IdleCollector /\ IdleCache

\* fetch_weekly_price_index(sido, weeks) is called: without an API key it
\* raises ValueError, else it enters the loop at start_date.  current is the
\* number of weeks current_date lies after start_date; end_date lies weeks after it.
FetchWeeklyPriceIndex(sido, weeks, has_key) ==
    /\ pc = "collector"
    /\ collector = NoCollector
    /\ collector' = [pc |-> IF has_key THEN "loop" ELSE "ValueError",
                     sido |-> sido, sido_code |-> sido_code_of(sido),
                     weeks |-> weeks, current |-> 0,
                     all_data |-> <<>>, requests |-> <<>>]
    /\ UNCHANGED <<pc, codecVars, callVars, requestVars, loadVars, viewVars,
                   rangeVars, logVars, cacheVars>>

\* a mutant of the step of current_date: the handler of a failed request does
\* not move on, so the same week is asked for again
advance_on_success_only(current, raised) == IF raised THEN current ELSE current + 1

\* current_date += timedelta(weeks=1): at the end of the try block when the
\* request returned, in the except block when it raised
advance(current, raised) == IF raised THEN current + 1 ELSE current + 1

\* one pass of `while current_date <= end_date`: the request of the week is
\* sent; its rows are added, or its exception is printed; a week is added
FetchSingleWeek(outcome) ==
    /\ collector.pc = "loop"
    /\ collector.current <= collector.weeks
    /\ collector' =
           [collector EXCEPT
               !.requests = Append(@, [sido_code |-> collector.sido_code,
                                       week |-> collector.current]),
               !.all_data = IF outcome.raised THEN @
                            ELSE @ \o processed_items(outcome.items, collector.sido_code,
                                                      collector.current),
               !.current = advance(@, outcome.raised)]
    /\ UNCHANGED <<pc, codecVars, callVars, requestVars, loadVars, viewVars,
                   rangeVars, logVars, cacheVars>>

\* the loop is left and the DataFrame (empty when nothing came) is returned
ReturnWeeklyPriceIndex ==
    /\ collector.pc = "loop"
    /\ collector.current > collector.weeks
    /\ collector' = [collector EXCEPT !.pc = "returned"]
    /\ UNCHANGED <<pc, codecVars, callVars, requestVars, loadVars, viewVars,
                   rangeVars, logVars, cacheVars>>

SidoNames == DOMAIN sido_codes \cup {UnknownRegion}

NextCollector ==
    \/ \E sido \in SidoNames, weeks \in 0..MaxWeeks, has_key \in BOOLEAN :
           FetchWeeklyPriceIndex(sido, weeks, has_key)
    \/ \E outcome \in WeekOutcomes : FetchSingleWeek(outcome)
    \/ ReturnWeeklyPriceIndex

SpecCollector == InitCollector /\ [][NextCollector]_vars

\* the same, run as the interpreter runs it: a pass that can be taken is taken
\* (every request ends, by its answer, an error or its timeout of 30 seconds),
\* and a loop whose condition has become false is left
SpecCollectorLive ==
    /\ SpecCollector
    /\ WF_vars(\E outcome \in WeekOutcomes : FetchSingleWeek(outcome))
    /\ WF_vars(ReturnWeeklyPriceIndex)

-----------------------------------------------------------------------------
(* The cache of load_data: @st.cache_data(ttl=3600) *)

\* ttl, in seconds
ttl == 3600

\* the latest second of the session the model follows
MaxClock == 5400

\* the arguments load_data is called with (the API key, the same in every call
\* of a session, left out): the price types, the two week codes, the regions
CacheKeys ==
    {[price_types |-> <<"sale">>, start_date |-> "202201", end_date |-> "202205",
      regions |-> <<"Seoul", "Gyeonggi">>],
     [price_types |-> <<"sale">>, start_date |-> "202201", end_date |-> "202205",
      regions |-> <<"Gyeonggi", "Seoul">>],
     [price_types |-> <<"sale", "lease">>, start_date |-> "202201",
      end_date |-> "202205", regions |-> <<"Seoul", "Gyeonggi">>],
     [price_types |-> <<"sale">>, start_date |-> "202101", end_date |-> "202205",
      regions |-> <<"Seoul", "Gyeonggi">>]}

\* the entries stored for the arguments
entries_of(key) == {e \in cache : e.key = key}

\* a mutant of is_fresh: an entry never expires
is_fresh_forever(e) == TRUE

\* an entry is served while less than ttl seconds have passed since it was stored
is_fresh(e) == clock - e.stored_at < ttl

\* a mutant of cached_entries: the order of the regions does not tell entries apart
cached_entries_by_region_set(key) ==
    {e \in cache : /\ Range(e.key.regions) = Range(key.regions)
                   /\ e.key.price_types = key.price_types
                   /\ e.key.start_date = key.start_date
                   /\ e.key.end_date = key.end_date
                   /\ is_fresh(e)}

\* the entries the decorator can serve a call from
cached_entries(key) == {e \in entries_of(key) : is_fresh(e)}

InitCache ==
    /\ pc = "session"
    /\ IdleCodec /\ IdleCall /\ IdleRequest /\ IdleLoad /\ IdleView /\ IdleRange
    /\ IdleLog /\ IdleCollector /\ IdleCache

\* time passes
Tick(seconds) ==
    /\ pc = "session"
    /\ clock + seconds <= MaxClock
    /\ clock' = clock + seconds
    /\ UNCHANGED <<pc, cache, last_call, codecVars, callVars, requestVars, loadVars,
                   viewVars, rangeVars, logVars, collectorVars>>

\* load_data(api_key, price_types, start_date, end_date, regions) is called:
\* the decorator returns the stored value of a fresh entry, or else runs the
\* body (get_multiple_data) and stores what it returned.  A payload is named
\* by the call that fetched it.
LoadData(key) ==
    /\ pc = "session"
    /\ IF cached_entries(key) # {}
       THEN /\ last_call' = [made |-> TRUE, key |-> key, at |-> clock, hit |-> TRUE,
                             payload |-> (CHOOSE e \in cached_entries(key) : TRUE).payload]
            /\ UNCHANGED cache
       ELSE LET payload == [key |-> key, fetched_at |-> clock]
            IN  /\ last_call' = [made |-> TRUE, key |-> key, at |-> clock,
                                 hit |-> FALSE, payload |-> payload]
                /\ cache' = (cache \ entries_of(key))
                                \cup {[key |-> key, stored_at |-> clock,
                                       payload |-> payload]}
    /\ UNCHANGED <<pc, clock, codecVars, callVars, requestVars, loadVars,
                   viewVars, rangeVars, logVars, collectorVars>>

NextCache ==
    \/ \E seconds \in {ttl \div 2 - 1, ttl \div 2} : Tick(seconds)
    \/ \E key \in CacheKeys : LoadData(key)

SpecCache == InitCache /\ [][NextCache]_vars

-----------------------------------------------------------------------------
(* calculate_date_range and the read-back of its week codes in main *)

\* date.fromordinal(n), as <<year, month, day>>
fromordinal(n) ==
    LET guess == (n * 400) \div 146097 + 1
        y == IF DaysBeforeYear(guess) >= n THEN guess - 1
             ELSE IF DaysBeforeYear(guess + 1) < n THEN guess + 1
             ELSE guess
        rest == n - DaysBeforeYear(y)
        m == CHOOSE k \in 1..12 :
                 DaysBeforeMonth(y, k) < rest
                     /\ rest <= DaysBeforeMonth(y, k) + DaysInMonth(y, k)
    IN  <<y, m, rest - DaysBeforeMonth(y, m)>>

\* d - timedelta(days=n)
minus_days(d, n) == fromordinal(Ymd2Ord(d[1], d[2], d[3]) - n)

\* f"{n:04d}"-style year of strftime('%Y'): four digits, zero-padded
Pad04d(n) ==
    IF n < 10 THEN <<0, 0, 0, n>>
    ELSE IF n < 100 THEN <<0, 0>> \o Digits(n)
    ELSE IF n < 1000 THEN <<0>> \o Digits(n)
    ELSE Digits(n)

\* int(s) of a non-empty string of digits
RECURSIVE int(_)
int(s) == IF Len(s) = 1 THEN s[1] ELSE int(SubSeq(s, 1, Len(s) - 1)) * 10 + s[Len(s)]

\* date.strftime('%Y-%m-%d'): the digits of the string, its hyphens left out
strftime(d) == Pad04d(d[1]) \o Pad02d(d[2]) \o Pad02d(d[3])

\* datetime.strptime(s, '%Y-%m-%d') of such a string
strptime(s) == <<int(SubSeq(s, 1, 4)), int(SubSeq(s, 5, 6)), int(SubSeq(s, 7, 8))>>

\* the periods of the selectbox, and one name calculate_date_range does not know
FixedPeriods == {"1y", "3y", "5y", "10y"}
Periods == FixedPeriods \cup {"custom", "other"}

\* the years of a fixed period
years_of(p) == IF p = "1y" THEN 1 ELSE IF p = "3y" THEN 3 ELSE IF p = "5y" THEN 5 ELSE 10

\* a mutant of start_of_period: the same day N calendar years earlier
start_of_period_calendar_years(end_date, p) ==
    <<end_date[1] - years_of(p), end_date[2],
      IF end_date[2] = 2 /\ end_date[3] = 29 /\ ~IsLeap(end_date[1] - years_of(p))
      THEN 28 ELSE end_date[3]>>

\* end_date - timedelta(days=365*N) of the fixed periods
start_of_period(end_date, p) == minus_days(end_date, 365 * years_of(p))

\* calculate_date_range(period, custom_start, custom_end) when datetime.now()
\* is today: the two dates it settles on and the two strings it returns
calculate_date_range(p, cs, ce, today) ==
    LET given == p = "custom" /\ cs # <<>> /\ ce # <<>>
        start_date == IF p \in FixedPeriods THEN start_of_period(today, p)
                      ELSE IF given THEN strptime(cs)
                      ELSE minus_days(today, 365)
        end_date == IF given THEN strptime(ce) ELSE today
    IN  [start_date |-> start_date, end_date |-> end_date,
         start_str |-> date_to_week_format(start_date),
         end_str |-> date_to_week_format(end_date)]

\* a mutant of the read-back: the week is read from one character too far on
read_back_off_by_one(s) == <<int(SubSeq(s, 1, 4)), int(SubSeq(s, 6, Len(s)))>>

\* main: int(s[:4]), int(s[4:]) of a week code
read_back(s) == <<int(SubSeq(s, 1, 4)), int(SubSeq(s, 5, Len(s)))>>

(* The date-range specification: one call on any day and period *)

\* the custom bounds tried: days around two year ends and the base date
CustomDates ==
    {<<BaseYear - 1, 1, 3>>, <<BaseYear - 1, 12, 31>>, <<BaseYear, 1, 2>>,
     <<BaseYear, 1, 3>>, <<BaseYear, 1, 24>>, <<BaseYear, 1, 31>>, <<BaseYear, 2, 7>>}

CustomStrings == {strftime(d) : d \in CustomDates}

InitRange ==
    /\ pc = "range"
    /\ period \in Periods
    /\ \/ /\ period = "custom"
          /\ now = <<BaseYear, 2, 7>>
          /\ \/ custom_start \in CustomStrings /\ custom_end \in CustomStrings
             \/ custom_start = NoStr /\ custom_end = NoStr
       \/ /\ period # "custom"
          /\ now \in CodecDates
          /\ custom_start = NoStr /\ custom_end = NoStr
    /\ date_range = NoRange
    /\ period_shown = <<>>
    /\ IdleCodec /\ IdleCall /\ IdleRequest /\ IdleLoad /\ IdleView
    /\ IdleLog /\ IdleCollector /\ IdleCache

\* main: start_date, end_date = calculate_date_range(period, custom_start, custom_end)
CalculateDateRange ==
    /\ pc = "range"
    /\ date_range' = calculate_date_range(period, custom_start, custom_end, now)
    /\ pc' = "ranged"
    /\ UNCHANGED <<now, period, custom_start, custom_end, period_shown,
                   codecVars, callVars, requestVars, loadVars, viewVars,
                   logVars, collectorVars, cacheVars>>

\* main: start_year, start_week, end_year, end_week
ReadBack ==
    /\ pc = "ranged"
    /\ period_shown' = read_back(date_range.start_str) \o read_back(date_range.end_str)
    /\ pc' = "shown"
    /\ UNCHANGED <<now, period, custom_start, custom_end, date_range,
                   codecVars, callVars, requestVars, loadVars, viewVars,
                   logVars, collectorVars, cacheVars>>

NextRange == CalculateDateRange \/ ReadBack

SpecRange == InitRange /\ [][NextRange]_vars

-----------------------------------------------------------------------------
(* Statements about the change rates: C2, C3, C4 *)

\* the observations of one region and price type, as positions of the table
SeriesAt(table, region, price_type) ==
    {i \in DOMAIN table :
        table[i].region = region /\ table[i].price_type = price_type}

\* no two observations of the series share a date
DatesDistinct(table, S) ==
    \A i, j \in S : table[i].date = table[j].date => i = j

\* the stored value of an observation, an integer of the source
ValueAt(table, i) == table[i].index[1]

\* the cell of a matrix for the r-th selected region and a date
CellAt(m, r, date) ==
    m.z[r][CHOOSE c \in DOMAIN m.columns : m.columns[c] = date]

\* the finite cell x equals the fraction n / d
CellIs(x, n, d) == x[2] > 0 /\ x[1] * d = n * x[2]

\* the matrices of the last create_heatmap call that were built
BuiltMaps(mode) ==
    IF heatmap.made /\ heatmap.mode = mode
    THEN {k \in DOMAIN heatmap.maps : heatmap.maps[k].map.status = "ok"}
    ELSE {}

\* the series has exactly the values vs, in ascending date order
SeriesValuesAre(table, S, vs) ==
    /\ Cardinality(S) = Len(vs)
    /\ DatesDistinct(table, S)
    /\ \A i \in S :
           ValueAt(table, i) = vs[Cardinality({j \in S : table[j].date <= table[i].date})]

\* C2: in cumulative mode, for every series with distinct dates whose earliest
\* value is positive, the cell of point i is (value[i] - value[0]) / value[0] * 100,
\* so the first point's cell is 0; the series 100, 110, 99 gives 0, 10, -1.
C2_CumulativeRates ==
    \A k \in BuiltMaps("cumulative") : \A r \in DOMAIN region_names :
        LET m == heatmap.maps[k].map
            S == SeriesAt(df, region_names[r], heatmap.maps[k].price_type)
        IN  (S # {} /\ DatesDistinct(df, S)) =>
            LET first == CHOOSE i \in S : \A j \in S : df[i].date <= df[j].date
                v0 == ValueAt(df, first)
            IN  v0 > 0 =>
                /\ \A i \in S :
                    /\ df[i].date \in Range(m.columns)
                    /\ CellIs(CellAt(m, r, df[i].date), (ValueAt(df, i) - v0) * 100, v0)
                /\ CellAt(m, r, df[first].date) = <<0, 1>>
                /\ SeriesValuesAre(df, S, <<100, 110, 99>>) =>
                       m.z[r] = <<<<0, 1>>, <<10, 1>>, <<0 - 1, 1>>>>

\* the cumulative matrix of the series 100, 110, 99 has been built
C2_Witness ==
    /\ BuiltMaps("cumulative") = {1}
    /\ SeriesValuesAre(df, SeriesAt(df, "Seoul", "sale"), <<100, 110, 99>>)
    /\ heatmap.maps[1].map.z[1] = <<<<0, 1>>, <<10, 1>>, <<0 - 1, 1>>>>

\* the observation just before i in its series, by date
PrevOf(table, S, i) ==
    CHOOSE j \in S :
        /\ table[j].date < table[i].date
        /\ \A l \in S : table[l].date < table[i].date => table[l].date <= table[j].date

HasPrev(table, S, i) == \E j \in S : table[j].date < table[i].date

\* C3: in step mode, for every series with distinct dates, the cell of the first
\* point is 0 and the cell of every later point whose previous value is not 0 is
\* (value[i] - value[i-1]) / value[i-1] * 100; the series 100, 110, 99 gives
\* 0, 10, -10.
C3_StepRates ==
    \A k \in BuiltMaps("step") : \A r \in DOMAIN region_names :
        LET m == heatmap.maps[k].map
            S == SeriesAt(df, region_names[r], heatmap.maps[k].price_type)
        IN  (S # {} /\ DatesDistinct(df, S)) =>
            /\ \A i \in S :
                /\ df[i].date \in Range(m.columns)
                /\ ~HasPrev(df, S, i) => CellAt(m, r, df[i].date) = <<0, 1>>
                /\ (HasPrev(df, S, i) /\ ValueAt(df, PrevOf(df, S, i)) # 0) =>
                       CellIs(CellAt(m, r, df[i].date),
                              (ValueAt(df, i) - ValueAt(df, PrevOf(df, S, i))) * 100,
                              ValueAt(df, PrevOf(df, S, i)))
            /\ SeriesValuesAre(df, S, <<100, 110, 99>>) =>
                   m.z[r] = <<<<0, 1>>, <<10, 1>>, <<0 - 10, 1>>>>

\* the step matrix of the series 100, 110, 99 has been built
C3_Witness ==
    /\ BuiltMaps("step") = {1}
    /\ SeriesValuesAre(df, SeriesAt(df, "Seoul", "sale"), <<100, 110, 99>>)
    /\ heatmap.maps[1].map.z[1] = <<<<0, 1>>, <<10, 1>>, <<0 - 10, 1>>>>

\* C4 as claimed: in step mode, whenever the previous observation's value is 0
\* the cell of the current point is empty (NaN in the matrix): never an
\* infinity and never a number, whatever the current value.
C4_ZeroPreviousOmitted ==
    \A k \in BuiltMaps("step") : \A r \in DOMAIN region_names :
        LET m == heatmap.maps[k].map
            S == SeriesAt(df, region_names[r], heatmap.maps[k].price_type)
        IN  (S # {} /\ DatesDistinct(df, S)) =>
            \A i \in S :
                (HasPrev(df, S, i) /\ ValueAt(df, PrevOf(df, S, i)) = 0) =>
                    CellAt(m, r, df[i].date) = NaN

-----------------------------------------------------------------------------
(* Statements about the normalisation: C5, C6, C7, C8 *)

Normalized == chart.made /\ chart.normalize

DistanceToBase(table, i) == Abs(table[i].date - Ymd2Ord(2022, 1, 31))

\* C5 as claimed: for every non-empty series the normalisation picks as anchor
\* an observation of the series at the least distance in days from 2022-01-31,
\* and of two equally distant ones the earlier.  idxmin takes the first of the
\* nearest rows in table order, and create_chart does not sort the series it
\* selects, so a region named twice whose second frame holds the earlier date
\* gets the later one as anchor.
C5_AnchorIsNearest ==
    Normalized =>
        /\ \A region \in Range(region_names), price_type \in STATBL_IDS :
               SeriesAt(df, region, price_type) # {} =>
                   \E p \in DOMAIN chart.passes :
                       chart.passes[p].mask = SeriesAt(df, region, price_type)
        /\ \A p \in DOMAIN chart.passes :
               LET a == chart.passes[p].base_idx
                   S == chart.passes[p].mask
               IN  /\ a \in S
                   /\ \E region \in Range(region_names), price_type \in STATBL_IDS :
                          S = SeriesAt(df, region, price_type)
                   /\ \A j \in S :
                       \/ DistanceToBase(df, a) < DistanceToBase(df, j)
                       \/ /\ DistanceToBase(df, a) = DistanceToBase(df, j)
                          /\ df[a].date <= df[j].date

\* C6: after normalising a series whose anchor value is positive, every point
\* holds value / anchorValue * 100 of the values as loaded, and the anchor holds 100.
C6_IndexedValues ==
    Normalized =>
        \A p \in DOMAIN chart.passes :
            LET a == chart.passes[p].base_idx
            IN  ValueAt(df, a) > 0 =>
                /\ \A i \in chart.passes[p].mask :
                       CellIs(chart.frame[i].index, ValueAt(df, i) * 100, ValueAt(df, a))
                /\ chart.frame[a].index = <<100, 1>>

\* a series with anchor value 110 and another value 99 has been normalised
C6_Witness ==
    /\ Normalized
    /\ \E p \in DOMAIN chart.passes :
           /\ ValueAt(df, chart.passes[p].base_idx) = 110
           /\ \E i \in chart.passes[p].mask :
                  ValueAt(df, i) = 99 /\ chart.frame[i].index = <<90, 1>>

C7_WitnessNegative ==
    /\ Normalized
    /\ \E p \in DOMAIN chart.passes :
           /\ ValueAt(df, chart.passes[p].base_idx) < 0
           /\ \E i \in chart.passes[p].mask : ValueAt(df, i) > 0

\* the list without its repeated names, in order of first appearance
RECURSIVE WithoutRepeats(_)
WithoutRepeats(s) ==
    IF s = <<>> THEN <<>>
    ELSE LET before == WithoutRepeats(SubSeq(s, 1, Len(s) - 1))
         IN  IF s[Len(s)] \in Range(before) THEN before ELSE Append(before, s[Len(s)])

\* C8: normalising the normalised table again leaves it as it is, and a region
\* named twice in the selection, whose rows the loop normalises twice, ends
\* with the values one normalisation gives.
C8_NormalizeIdempotent ==
    Normalized =>
        /\ normalize_table(chart.frame, region_names).frame = chart.frame
        /\ chart.frame = normalize_table(df, WithoutRepeats(region_names)).frame

\* a region named twice has been normalised: the second pass found the anchor,
\* loaded as 110, already at 100
C8_Witness ==
    /\ Normalized
    /\ Len(region_names) = 2 /\ region_names[1] = region_names[2]
    /\ \E p, q \in DOMAIN chart.passes :
           /\ p < q
           /\ chart.passes[p].mask = chart.passes[q].mask
           /\ chart.passes[p].base_value = <<110, 1>>
           /\ chart.passes[q].base_value = <<100, 1>>
           /\ \E i \in chart.passes[p].mask : ValueAt(df, i) = 0

-----------------------------------------------------------------------------
(* Statements about the observation table: C9 *)

\* C9 as claimed: the assembled table holds at most one observation per
\* (region, series kind, date).
C9_OneObservationPerKey ==
    pc = "loaded" =>
        \A i, j \in DOMAIN df :
            (/\ df[i].region = df[j].region
             /\ df[i].price_type = df[j].price_type
             /\ df[i].date = df[j].date) => i = j

-----------------------------------------------------------------------------
(* Statements about the shape of the change-rate matrix: C11, C12 *)

\* the observations of a region among the rows of one price type
ObservationsOf(region, price_type) == SeriesAt(df, region, price_type)

\* the price types create_heatmap is asked to draw
DrawnTypes == Range(price_types_of(chart_type))

\* C11 as claimed: whenever create_heatmap has run for a price type of which at
\* least one selected region has observations, a matrix of that type was built
\* without an exception, with exactly one row per selected region in the
\* selected order, and the row of a region without observations is all empty.
C11_OneRowPerSelectedRegion ==
    heatmap.made =>
        \A price_type \in DrawnTypes :
            (\E r \in DOMAIN region_names :
                 ObservationsOf(region_names[r], price_type) # {}) =>
            /\ heatmap.signal = "none"
            /\ \E k \in DOMAIN heatmap.maps :
                   LET m == heatmap.maps[k].map
                   IN  /\ heatmap.maps[k].price_type = price_type
                       /\ m.status = "ok"
                       /\ Len(m.z) = Len(region_names)
                       /\ \A r \in DOMAIN region_names :
                              ObservationsOf(region_names[r], price_type) = {} =>
                                  \A c \in DOMAIN m.columns : m.z[r][c] = NaN

\* the dates on which the selected regions have observations of a price type
ObservedDates(price_type) ==
    {df[i].date : i \in {j \in DOMAIN df :
        df[j].price_type = price_type /\ df[j].region \in Range(region_names)}}

\* the earliest observation of a non-empty series, the first stored of those
\* that share the earliest date
EarliestOf(S) ==
    CHOOSE i \in S : \A j \in S :
        df[i].date < df[j].date \/ (df[i].date = df[j].date /\ i <= j)

\* the region has a rate series in the mode: it has observations and, in
\* cumulative mode, its earliest value is positive
Rated(region, price_type, mode) ==
    LET S == ObservationsOf(region, price_type)
    IN  S # {} /\ (mode = "cumulative" => ValueAt(df, EarliestOf(S)) > 0)

RatedDates(price_type, mode) ==
    {df[i].date : i \in {j \in DOMAIN df :
        /\ df[j].price_type = price_type
        /\ df[j].region \in Range(region_names)
        /\ Rated(df[j].region, price_type, mode)}}

\* the cells of a region without an observation on their date are empty
MissingCellsEmpty(k) ==
    LET m == heatmap.maps[k].map
    IN  \A r \in DOMAIN region_names : \A c \in DOMAIN m.columns :
            (\A i \in ObservationsOf(region_names[r], heatmap.maps[k].price_type) :
                 df[i].date # m.columns[c])
                => m.z[r][c] = NaN

\* C12 as claimed: the date axis of every matrix built is the set of all dates
\* observed across the selected regions for the price type, and a cell of a
\* region without an observation on its date is empty, never 0.
C12_DateAxisIsUnionOfObserved ==
    \A mode \in HeatmapModes : \A k \in BuiltMaps(mode) :
        /\ Range(heatmap.maps[k].map.columns) = ObservedDates(heatmap.maps[k].price_type)
        /\ MissingCellsEmpty(k)

\* C12 as amended: the date axis of every matrix built holds, ascending and
\* once each, the dates observed across the selected regions that have a rate
\* series in the mode (in cumulative mode a region whose earliest value is not
\* positive adds no date); a cell of a region without an observation on its
\* date is empty, never 0, and so is every cell of a region without a rate series.
C12_DateAxisIsUnionOfRated ==
    \A mode \in HeatmapModes : \A k \in BuiltMaps(mode) :
        LET m == heatmap.maps[k].map
            price_type == heatmap.maps[k].price_type
        IN  /\ Range(m.columns) = RatedDates(price_type, mode)
            /\ \A c, e \in DOMAIN m.columns : c < e => m.columns[c] < m.columns[e]
            /\ MissingCellsEmpty(k)
            /\ \A r \in DOMAIN region_names :
                   ~Rated(region_names[r], price_type, mode) =>
                       \A c \in DOMAIN m.columns : m.z[r][c] = NaN

\* a matrix of two regions observed on different dates has been built: each
\* row is empty on the other region's date
C12_Witness ==
    /\ BuiltMaps("step") = {1}
    /\ region_names = <<"Seoul", "Gyeonggi">>
    /\ Len(heatmap.maps[1].map.columns) = 2
    /\ heatmap.maps[1].map.z = <<<<Num(0), NaN>>, <<NaN, Num(0)>>>>

\* C12, the cumulative case: a region whose earliest value is 0 is observed on
\* a date no other region has, and the matrix built has no column for it
C12_WitnessUnrated ==
    /\ BuiltMaps("cumulative") = {1}
    /\ \E i \in DOMAIN df :
           /\ df[i].region \in Range(region_names)
           /\ df[i].price_type = heatmap.maps[1].price_type
           /\ df[i].date \notin Range(heatmap.maps[1].map.columns)

-----------------------------------------------------------------------------
(* Statements about the date range and the week codes: C13, C14, C16 *)

Ordinal(d) == Ymd2Ord(d[1], d[2], d[3])

\* calculate_date_range has returned
Ranged == pc \in {"ranged", "shown"}

\* the week code of ISO 8601 for a date, as digits
Iso8601Code(d) ==
    Digits(Iso8601Year(d)) \o <<Iso8601Week(d) \div 10, Iso8601Week(d) % 10>>

\* C13: for each fixed period of N = 1, 3, 5, 10 years and any now, the range
\* runs from the day N * 365 days before now to now, and the strings returned
\* are the ISO week codes of exactly those two days; with now = 2025-12-26 and
\* one year the start is 2024-12-26, a day from 2024-12-27, and the codes are
\* 202452 and 202552.
C13_FixedPeriodIs365DaysPerYear ==
    (Ranged /\ period \in FixedPeriods) =>
        LET N == CHOOSE n \in {1, 3, 5, 10} :
                     period = <<"1y", "", "3y", "", "5y", "", "", "", "", "10y">>[n]
        IN  /\ ValidYmd(date_range.start_date)
            /\ Ordinal(date_range.start_date) = Ordinal(now) - N * 365
            /\ date_range.end_date = now
            /\ date_range.start_str = Iso8601Code(date_range.start_date)
            /\ date_range.end_str = Iso8601Code(now)
            /\ (now = <<2025, 12, 26>> /\ period = "1y") =>
                   /\ date_range.start_date = <<2024, 12, 26>>
                   /\ Abs(Ordinal(date_range.start_date) - Ordinal(<<2024, 12, 27>>)) <= 1
                   /\ date_range.start_str = <<2, 0, 2, 4, 5, 2>>
                   /\ date_range.end_str = <<2, 0, 2, 5, 5, 2>>

\* the one-year range of 2025-12-26 has been computed
C13_Witness ==
    /\ Ranged
    /\ now = <<2025, 12, 26>>
    /\ period = "1y"
    /\ date_range.start_str = <<2, 0, 2, 4, 5, 2>>

\* C13, where 365-day years and calendar years part: a three-year range whose
\* start lies in another ISO week than the same day three years earlier
C13_WitnessNotCalendarYears ==
    /\ Ranged
    /\ period = "3y"
    /\ now[2] # 2
    /\ date_range.start_str # Iso8601Code(<<now[1] - 3, now[2], now[3]>>)

\* C14 as claimed: every range calculate_date_range returns has start <= end,
\* and its start week code denotes no later week than its end week code.
C14_StartNotAfterEnd ==
    Ranged =>
        /\ Ordinal(date_range.start_date) <= Ordinal(date_range.end_date)
        /\ LET a == IsoCalendar(date_range.start_date)
               b == IsoCalendar(date_range.end_date)
           IN  a[1] < b[1] \/ (a[1] = b[1] /\ a[2] <= b[2])

\* C16: reading a week code back as main does (first four characters the year,
\* the rest the week) gives exactly the ISO (year, week) pair of the date it
\* was made from.
C16_WeekCodeReadBack ==
    pc = "shown" =>
        /\ period_shown[1] = Iso8601Year(date_range.start_date)
        /\ period_shown[2] = Iso8601Week(date_range.start_date)
        /\ period_shown[3] = Iso8601Year(date_range.end_date)
        /\ period_shown[4] = Iso8601Week(date_range.end_date)

\* the code of a January day of ISO week 53 of the year before, and the code
\* of a day of a one-digit week, have been read back
C16_Witness ==
    /\ pc = "shown"
    /\ date_range.end_date = <<2021, 1, 1>>
    /\ period_shown[3] = 2020 /\ period_shown[4] = 53
    /\ period_shown[2] < 10

-----------------------------------------------------------------------------
(* Statements about the guards of the change rates: C15 *)

\* the table without the rows of one region
WithoutRegion(table, region) == SelectSeq(table, LAMBDA row : row.region # region)

\* C15: in cumulative mode, for a selected region whose earliest observation of
\* the price type has a value <= 0, every cell of its row is empty (so none is
\* an infinity or a number), and what create_heatmap builds and signals for the
\* price type is what it builds and signals from the table without that
\* region's rows: no error comes from the region and the other regions' rates
\* are as they are without it.
C15_NonPositiveBaseHasNoRates ==
    (heatmap.made /\ heatmap.mode = "cumulative") =>
        \A k \in DOMAIN heatmap.maps : \A r \in DOMAIN region_names :
            LET price_type == heatmap.maps[k].price_type
                m == heatmap.maps[k].map
                S == ObservationsOf(region_names[r], price_type)
            IN  (S # {} /\ ValueAt(df, EarliestOf(S)) <= 0) =>
                /\ m.status = "ok" => \A c \in DOMAIN m.columns : m.z[r][c] = NaN
                /\ m = single_heatmap(
                           WithoutRegion(of_type(df, price_type), region_names[r]),
                           region_names, "cumulative")

\* a cumulative matrix of two regions has been built, one with a negative
\* earliest value and later observations, the other with rates
C15_Witness ==
    /\ BuiltMaps("cumulative") = {1}
    /\ Len(region_names) = 2
    /\ LET S == ObservationsOf(region_names[1], heatmap.maps[1].price_type)
       IN  /\ Cardinality(S) = 2
           /\ ValueAt(df, EarliestOf(S)) < 0
    /\ \E c \in DOMAIN heatmap.maps[1].map.columns :
           heatmap.maps[1].map.z[2][c] = Num(0)

\* C15, the zero case: the same with an earliest value of 0
C15_WitnessZero ==
    /\ BuiltMaps("cumulative") = {1}
    /\ Len(region_names) = 2
    /\ LET S == ObservationsOf(region_names[2], heatmap.maps[1].price_type)
       IN  S # {} /\ ValueAt(df, EarliestOf(S)) = 0
    /\ \E c \in DOMAIN heatmap.maps[1].map.columns :
           heatmap.maps[1].map.z[1][c] = Num(0)

-----------------------------------------------------------------------------
(* Statements about the load: C17, C18 *)

\* get_multiple_data has returned
Loaded == pc \in {"loaded", "nodata"}

\* the call got a response it can use: HTTP and API succeeded and the rows
\* carry a date column and the value column
Usable(e) ==
    /\ e.http.kind = "ok"
    /\ e.http.date_col # "none"
    /\ e.http.has_val

\* how often the calls of the history, up to the n-th, received the well-formed
\* row raw for the region and price type in a usable response
RECURSIVE Received(_, _, _, _)
Received(n, region, price_type, raw) ==
    IF n = 0 THEN 0
    ELSE Received(n - 1, region, price_type, raw)
         + (IF /\ fetched[n].region = region
               /\ fetched[n].price_type = price_type
               /\ Usable(fetched[n])
            THEN CountRaw(fetched[n].http.rows, raw) ELSE 0)

\* how often the table holds raw for the region and price type
Stored(region, price_type, raw) ==
    Cardinality({i \in DOMAIN df :
        /\ df[i].region = region
        /\ df[i].price_type = price_type
        /\ df[i].date = Ymd2Ord(raw.date[1], raw.date[2], raw.date[3])
        /\ df[i].index = <<raw.val[2], 1>>})

\* C17: when get_multiple_data returns, it has made the call of every known
\* region and price type of the request whatever the earlier calls ended in,
\* the table holds every well-formed row of every usable response, as often as
\* received and under its region and price type, and nothing else; when no
\* call brought a row the table is empty.
C17_FailedFetchDoesNotAbort ==
    Loaded =>
        /\ Len(fetched) = Len(tasks)
        /\ \A n \in DOMAIN fetched :
               fetched[n].region = tasks[n].region
                   /\ fetched[n].price_type = tasks[n].price_type
        /\ \A region \in RequestNames, price_type \in STATBL_IDS :
               \A raw \in {r \in LoadRows : WellFormed(r)} :
                   Stored(region, price_type, raw)
                       = Received(Len(fetched), region, price_type, raw)
        /\ Len(df) = Cardinality({<<n, i>> \in (DOMAIN fetched) \X (1..MaxRows) :
                         /\ Usable(fetched[n])
                         /\ i \in DOMAIN fetched[n].http.rows
                         /\ WellFormed(fetched[n].http.rows[i])})
        /\ (pc = "nodata") = (df = <<>>)

\* a request of two regions has been loaded whose first call failed and whose
\* second call brought a row
C17_Witness ==
    /\ pc = "loaded"
    /\ Len(fetched) = 2
    /\ fetched[1].http.kind = "http_error"
    /\ fetched[1].region # fetched[2].region
    /\ Len(df) = 1 /\ df[1].region = fetched[2].region

\* C17, every call failing: a request of four calls, none usable, has returned
\* the empty table
C17_WitnessAllFailed ==
    /\ pc = "nodata"
    /\ Len(fetched) = 4
    /\ \E n \in DOMAIN fetched : fetched[n].http.kind = "api_error"
    /\ \E n \in DOMAIN fetched : fetched[n].http.kind = "ok"
    /\ \A n \in DOMAIN fetched : ~Usable(fetched[n])

\* C18 as claimed: a region name that is no key of the lookup table yields no
\* data: no request is issued for it and no observation is stored for it, by
\* get_multiple_data and by the collector alike.
C18_UnknownRegionYieldsNoData ==
    /\ Loaded =>
           /\ \A n \in DOMAIN fetched : fetched[n].region \in DOMAIN REGION_CODES
           /\ \A i \in DOMAIN df : df[i].region \in DOMAIN REGION_CODES
    /\ (collector # NoCollector /\ collector.sido \notin DOMAIN sido_codes) =>
           /\ collector.requests = <<>>
           /\ collector.all_data = <<>>

-----------------------------------------------------------------------------
(* Statements about the cache of load_data: C19 *)

\* every call so far was answered as the claim says: a stored payload only to
\* a call with the arguments of the call that fetched it and at most ttl
\* seconds after that fetch, else by a fetch made at the call
AnsweredFromOwnFreshEntry ==
    last_call.made =>
        /\ last_call.payload.key = last_call.key
        /\ last_call.hit =>
               /\ last_call.payload.fetched_at <= last_call.at
               /\ last_call.at - last_call.payload.fetched_at <= ttl
        /\ ~last_call.hit => last_call.payload.fetched_at = last_call.at
        /\ \A e, f \in cache : e.key = f.key => e = f

\* a call that finds no entry for its arguments, or only one stored more than
\* ttl seconds ago, is answered by a fetch
MissingOrStaleRefetches ==
    \A key \in CacheKeys :
        (last_call' # last_call /\ last_call'.key = key
            /\ \A e \in entries_of(key) : clock - e.stored_at > ttl)
        => (~last_call'.hit /\ last_call'.payload = [key |-> key, fetched_at |-> clock])

\* C19: over any sequence of load_data calls, a cached payload is returned only
\* to a call with exactly the arguments of the fetch that stored it, made
\* within 3600 seconds of that fetch, and a call whose entry is missing or
\* stale is answered by a new fetch.
C19_CacheServesOnlyFreshSameQuery ==
    [][AnsweredFromOwnFreshEntry' /\ MissingOrStaleRefetches]_vars

\* a call has been served from the cache 3599 seconds after the fetch, while
\* another query's entry was in the cache too
C19_Witness ==
    /\ last_call.made /\ last_call.hit
    /\ last_call.at - last_call.payload.fetched_at = ttl - 1
    /\ \E e \in cache : Range(e.key.regions) = Range(last_call.key.regions)
                            /\ e.key # last_call.key

\* C19, the stale case: a call 3600 seconds after the fetch of its entry has
\* been answered by a new fetch
C19_WitnessStale ==
    /\ last_call.made /\ ~last_call.hit
    /\ last_call.at = ttl
    /\ \E e \in cache : e.key # last_call.key /\ e.stored_at = 0
    /\ \E e \in cache : e.key = last_call.key /\ e.stored_at = ttl

-----------------------------------------------------------------------------
(* Statements about the order of consumption: C20 *)

\* every series the normalisation read was in ascending date order in the
\* table it read it from
NormalizationReadsDateOrder ==
    Normalized =>
        \A p \in DOMAIN chart.passes : \A i, j \in chart.passes[p].mask :
            i < j => df[i].date <= df[j].date

\* the base of the cumulative rates of a region is its earliest observation:
\* the cell of its earliest date is 0
CumulativeBaseIsEarliest ==
    \A k \in BuiltMaps("cumulative") : \A r \in DOMAIN region_names :
        LET S == ObservationsOf(region_names[r], heatmap.maps[k].price_type)
        IN  Rated(region_names[r], heatmap.maps[k].price_type, "cumulative") =>
                CellAt(heatmap.maps[k].map, r, df[EarliestOf(S)].date) = Num(0)

\* the previous point of the step rates is the observation of the immediately
\* preceding date, wherever it is stored
StepPreviousIsPreceding ==
    \A k \in BuiltMaps("step") : \A r \in DOMAIN region_names :
        LET S == ObservationsOf(region_names[r], heatmap.maps[k].price_type)
        IN  \A i \in S :
                (HasPrev(df, S, i) /\ ValueAt(df, PrevOf(df, S, i)) # 0) =>
                    CellIs(CellAt(heatmap.maps[k].map, r, df[i].date),
                           (ValueAt(df, i) - ValueAt(df, PrevOf(df, S, i))) * 100,
                           ValueAt(df, PrevOf(df, S, i)))

\* C20 as claimed: within each region and price type the observations are in
\* ascending date order when the normalisation and when either change-rate
\* mode consumes them: the cumulative base is the earliest observation and the
\* previous point of step mode is that of the immediately preceding date.
C20_ConsumedInDateOrder ==
    /\ NormalizationReadsDateOrder
    /\ CumulativeBaseIsEarliest
    /\ StepPreviousIsPreceding

-----------------------------------------------------------------------------
(* C21: the observation table after the downstream stages *)

\* the table as ingestion produced it: the frames get_multiple_data collected,
\* concatenated
Ingested == combine(all_data)

C21_WitnessPlain ==
    /\ pc = "loaded"
    /\ chart.made /\ ~chart.normalize
    /\ heatmap.made /\ heatmap.mode = "step"

-----------------------------------------------------------------------------
(* C22: the collection loop of fetch_weekly_price_index *)

\* the requests made so far are those of the weeks 0, 1, ... after start_date,
\* one each and in order, all with the code of the call
OneRequestPerWeek ==
    /\ Len(collector.requests) = collector.current
    /\ \A i \in DOMAIN collector.requests :
           /\ collector.requests[i].week = i - 1
           /\ collector.requests[i].sido_code = collector.sido_code

\* C22: once fetch_weekly_price_index(sido, weeks) has entered its loop, with
\* weeks >= 0 and whatever requests succeed or raise, the loop is left, and at
\* that point exactly weeks + 1 single-week requests have been made: each pass
\* asks for the week one after the last, whether the last succeeded or raised,
\* and no request is made past end_date.
C22_LoopEndsAfterWeeksPlusOneRequests ==
    /\ [](collector.pc \in {"loop", "returned"} =>
              /\ OneRequestPerWeek
              /\ collector.current <= collector.weeks + 1
              /\ collector.pc = "returned" =>
                     Len(collector.requests) = collector.weeks + 1)
    /\ (collector.pc = "loop" ~> collector.pc = "returned")

\* a call of two weeks or more has returned after its requests, of which none
\* gave a row: every week raised or came back empty
C22_Witness ==
    /\ collector.pc = "returned"
    /\ collector.weeks >= 2
    /\ Len(collector.requests) = collector.weeks + 1
    /\ collector.all_data = <<>>

\* a call of zero weeks has returned after its one request, with a row
C22_WitnessZeroWeeks ==
    /\ collector.pc = "returned"
    /\ collector.weeks = 0
    /\ Len(collector.requests) = 1
    /\ collector.all_data # <<>>

=============================================================================
